---------------------------- MODULE Spec2Model ----------------------------
(***************************************************************************)
(* A model of backend/app.py: the POST /chat request handlers, the shared  *)
(* conversation_state they read and write, the chat_history table, and the *)
(* helpers they call (match_faq, preprocess_text, generate_ai_response,    *)
(* save_chat_history).                                                     *)
(*                                                                         *)
(* A Python str is a sequence of one-character strings, so that strip(),   *)
(* lower(), the regular expression, split() and the substring tests are    *)
(* computed on the characters.  None is the string "None".                 *)
(***************************************************************************)
EXTENDS Integers, Sequences, FiniteSets, TLC

\* ------------------------------------------------------------------ bounds

\* Requests served in one behaviour of Spec (the stateful /chat handler).
MaxRequests == 3

\* Requests served in one behaviour of SpecRoutes (both /chat handlers).
MaxRouteRequests == 2

\* Requests received in one behaviour of SpecConc (two callers, interleaved).
MaxConcRequests == 3

\* ------------------------------------------------------- strings, characters

None == "None"

Digits == {"0", "1", "2", "3", "4", "5", "6", "7", "8", "9"}

LowerLetters ==
    {"a", "b", "c", "d", "e", "f", "g", "h", "i", "j", "k", "l", "m",
     "n", "o", "p", "q", "r", "s", "t", "u", "v", "w", "x", "y", "z"}

Whitespace == {" "}

\* The messages a caller posts (the raw "message" field, before strip()).
m_empty == << >>
m_blank == <<" ", " ">>
m_hello == <<"h", "e", "l", "l", "o">>
m_order == <<"o", "r", "d", "e", "r">>
m_refund == <<"r", "e", "f", "u", "n", "d">>
m_product == <<"p", "r", "o", "d", "u", "c", "t">>
m_abc == <<"a", "b", "c">>
m_12 == <<"1", "2">>
m_123 == <<"1", "2", "3">>
m_456 == <<"4", "5", "6">>
m_999 == <<"9", "9", "9">>
m_123_padded == <<" ", "1", "2", "3">>
m_product_42 == <<"p", "r", "o", "d", "u", "c", "t", " ", "4", "2">>

Messages ==
    {m_empty, m_blank, m_hello, m_order, m_refund, m_product, m_abc,
     m_12, m_123, m_456, m_999, m_123_padded, m_product_42}

\* str.strip(): leading and trailing whitespace removed.
RECURSIVE lstrip(_)
lstrip(s) ==
    IF s # << >> /\ Head(s) \in Whitespace THEN lstrip(Tail(s)) ELSE s

RECURSIVE rstrip(_)
rstrip(s) ==
    IF s # << >> /\ s[Len(s)] \in Whitespace
    THEN rstrip(SubSeq(s, 1, Len(s) - 1))
    ELSE s

strip(s) == rstrip(lstrip(s))

\* str.lower(), on the characters the messages and the FAQ store use.
LowerChar(c) ==
    CASE c = "H" -> "h"
      [] c = "O" -> "o"
      [] c = "R" -> "r"
      [] OTHER -> c

lower(s) == [i \in 1..Len(s) |-> LowerChar(s[i])]

\* Python's `needle in haystack` on strings.
Contains(haystack, needle) ==
    \E i \in 0..(Len(haystack) - Len(needle)) :
        SubSeq(haystack, i + 1, i + Len(needle)) = needle

\* str.split(): the maximal runs of non-whitespace characters.
RECURSIVE SplitFrom(_, _, _)
SplitFrom(s, cur, acc) ==
    IF s = << >>
    THEN IF cur = << >> THEN acc ELSE Append(acc, cur)
    ELSE IF Head(s) \in Whitespace
         THEN SplitFrom(Tail(s), << >>,
                        IF cur = << >> THEN acc ELSE Append(acc, cur))
         ELSE SplitFrom(Tail(s), Append(cur, Head(s)), acc)

split(s) == SplitFrom(s, << >>, << >>)

\* ' '.join(tokens)
RECURSIVE join(_)
join(tokens) ==
    IF tokens = << >> THEN << >>
    ELSE IF Len(tokens) = 1 THEN Head(tokens)
    ELSE Head(tokens) \o <<" ">> \o join(Tail(tokens))

\* ------------------------------------------------------------------ replies

\* A reply is the text of an f-string or literal, with the values the f-string
\* interpolates (empty where the text interpolates none).
FixedReply(t) ==
    [text |-> t, order_id |-> << >>, status |-> "", delivery |-> ""]

EnterMessageReply == FixedReply("Please enter a message.")
GreetingReply == FixedReply("Hi! How can I help you today?")
OrderPromptReply == FixedReply("Sure. Please provide your order ID.")
RefundPromptReply ==
    FixedReply("I can help with refunds. Please share your order ID.")
ProductPromptReply == FixedReply("Which product would you like to know about?")
KeyNotFoundReply == FixedReply("Gemini API key not found.")
ApologyReply == FixedReply("Sorry, I'm having trouble responding right now.")
MessageRequiredReply == FixedReply("Message is required")
InternalErrorReply == FixedReply("Internal Server Error")
\* response.text of a successful generate_content call.
GeneratedReply == FixedReply("<response.text>")

OrderFoundReply(order_id, order) ==
    [text |-> "Order {order_id} Status: {status}\nEstimated Delivery: {delivery}",
     order_id |-> order_id, status |-> order.status, delivery |-> order.delivery]

OrderNotFoundReply(order_id) ==
    [text |-> "No order found with ID {order_id}. Please check and try again.",
     order_id |-> order_id, status |-> "", delivery |-> ""]

\* jsonify(...), status: the HTTP response of a handler.
HttpOk == 200
HttpBadRequest == 400
HttpServerError == 500

JsonResponse(reply) == [code |-> HttpOk, key |-> "response", reply |-> reply]
JsonError(code, reply) == [code |-> code, key |-> "error", reply |-> reply]

\* ------------------------------------------------------------------ orders

mock_orders ==
    (m_123 :> [status |-> "Shipped", delivery |-> "2 days"]) @@
    (m_456 :> [status |-> "Processing", delivery |-> "5 days"]) @@
    (<<"7", "8", "9">> :> [status |-> "Delivered", delivery |-> "Delivered on Jan 10"])

\* True of a message that can fill the order-id slot.
is_order_id(s) == Len(s) >= 3 /\ \A i \in 1..Len(s) : s[i] \in Digits

\* ----------------------------------------------------------- detect_intent

GreetingWords == {m_hello, <<"h", "i">>}
OrderStatusWords == {m_order, <<"t", "r", "a", "c", "k">>}
RefundWords == {m_refund, <<"r", "e", "t", "u", "r", "n">>}
ProductWords == {m_product}

Hits(message, words) == \E w \in words : Contains(lower(message), w)

\* The refund keywords tested before the order-status keywords.
detect_intent_refund_first(message) ==
    IF Hits(message, GreetingWords) THEN "greeting"
    ELSE IF Hits(message, RefundWords) THEN "refund"
    ELSE IF Hits(message, OrderStatusWords) THEN "order_status"
    ELSE IF Hits(message, ProductWords) THEN "product"
    ELSE "general"

detect_intent(message) ==
    IF Hits(message, GreetingWords) THEN "greeting"
    ELSE IF Hits(message, OrderStatusWords) THEN "order_status"
    ELSE IF Hits(message, RefundWords) THEN "refund"
    ELSE IF Hits(message, ProductWords) THEN "product"
    ELSE "general"

\* ----------------------------------------------------------- NLP utilities

\* The entries of stopwords.words('english') that the modelled texts can hold.
StopWords ==
    {<<"i">>, <<"a">>, <<"m", "y">>, <<"i", "s">>, <<"t", "h", "e">>,
     <<"t", "o">>, <<"f", "o", "r">>}

\* preprocess_text: lower(), the characters outside [a-z0-9\s] removed, the
\* text tokenized (word_tokenize and the split() fallback agree on such text),
\* and the stopwords removed when the corpus is available.
preprocess_text(text, stopwords_ok) ==
    LET lowered == lower(text)
        cleaned == SelectSeq(lowered,
                     LAMBDA c : c \in LowerLetters \cup Digits \cup Whitespace)
        tokens == split(cleaned)
    IN  IF stopwords_ok
        THEN SelectSeq(tokens, LAMBDA t : t \notin StopWords)
        ELSE tokens

\* The except of json.loads left out of account: the stored list is used as
\* it stands.
ParsedKeywordsUnguarded(keywords_json) == keywords_json.value

\* json.loads(keywords_json), with the bare except: [] when it does not parse.
ParsedKeywords(keywords_json) ==
    IF keywords_json.parses THEN keywords_json.value ELSE << >>

\* The score counting a question token once however often the question
\* repeats it.
FaqScoreDistinctTokens(faq, user_message, stopwords_ok) ==
    LET user_tokens == preprocess_text(user_message, stopwords_ok)
        user_text == join(user_tokens)
        keywords == IF faq.keywords.parses THEN faq.keywords.value ELSE << >>
        question_tokens == preprocess_text(faq.question, stopwords_ok)
        keyword_hits ==
            {i \in 1..Len(keywords) :
                \/ Contains(user_text, lower(keywords[i]))
                \/ Contains(lower(user_message), lower(keywords[i]))}
        token_hits ==
            {question_tokens[i] : i \in 1..Len(question_tokens)}
               \cap {user_tokens[j] : j \in 1..Len(user_tokens)}
    IN  Cardinality(keyword_hits) + Cardinality(token_hits)

\* The score of one FAQ row (the body of match_faq's loop).
FaqScore(faq, user_message, stopwords_ok) ==
    LET user_tokens == preprocess_text(user_message, stopwords_ok)
        user_text == join(user_tokens)
        keywords == ParsedKeywords(faq.keywords)
        question_tokens == preprocess_text(faq.question, stopwords_ok)
        keyword_hits ==
            {i \in 1..Len(keywords) :
                \/ Contains(user_text, lower(keywords[i]))
                \/ Contains(lower(user_message), lower(keywords[i]))}
        token_hits ==
            {i \in 1..Len(question_tokens) :
                \E j \in 1..Len(user_tokens) : user_tokens[j] = question_tokens[i]}
    IN  Cardinality(keyword_hits) + Cardinality(token_hits)

\* The loop replacing the best row on an equal score too: the last row wins.
RECURSIVE FaqLoopLastWins(_, _, _, _, _)
FaqLoopLastWins(faqs, i, best, user_message, stopwords_ok) ==
    IF i > Len(faqs) THEN best
    ELSE LET score == FaqScore(faqs[i], user_message, stopwords_ok)
         IN  FaqLoopLastWins(faqs, i + 1,
                     IF score >= best.best_score
                     THEN [best_score |-> score, best_match |-> faqs[i].response]
                     ELSE best,
                     user_message, stopwords_ok)

\* The loop of match_faq from row i on: the best (score, response) so far is
\* replaced only by a strictly greater score.
RECURSIVE FaqLoop(_, _, _, _, _)
FaqLoop(faqs, i, best, user_message, stopwords_ok) ==
    IF i > Len(faqs) THEN best
    ELSE LET score == FaqScore(faqs[i], user_message, stopwords_ok)
         IN  FaqLoop(faqs, i + 1,
                     IF score > best.best_score
                     THEN [best_score |-> score, best_match |-> faqs[i].response]
                     ELSE best,
                     user_message, stopwords_ok)

\* The least best_score match_faq answers with.
FaqThreshold == 2

\* The best row returned whatever its score.
match_faq_any_score(user_message, faqs, stopwords_ok) ==
    FaqLoop(faqs, 1, [best_score |-> 0, best_match |-> None],
            user_message, stopwords_ok).best_match

match_faq(user_message, faqs, stopwords_ok) ==
    LET best == FaqLoop(faqs, 1, [best_score |-> 0, best_match |-> None],
                        user_message, stopwords_ok)
    IN  IF best.best_score >= FaqThreshold THEN best.best_match ELSE None

\* The outcome of generate_ai_response: the reply, whether generate_content
\* was called and how many times, whether that call failed, and whether the
\* failure left the function as an exception.
AiOutcome(reply, attempts, failed, raised) ==
    [reply |-> reply, called |-> attempts > 0, attempts |-> attempts,
     failed |-> failed, raised |-> raised]

\* The check of the key skipped: the service is called with no key.
generate_ai_response_unkeyed(key_set, call_ok) ==
    IF call_ok THEN AiOutcome(GeneratedReply, 1, FALSE, FALSE)
    ELSE AiOutcome(ApologyReply, 1, TRUE, FALSE)

\* The try/except around the call left out: the error reaches the caller.
generate_ai_response_uncaught(key_set, call_ok) ==
    IF ~key_set THEN AiOutcome(KeyNotFoundReply, 0, FALSE, FALSE)
    ELSE IF call_ok THEN AiOutcome(GeneratedReply, 1, FALSE, FALSE)
    ELSE AiOutcome(ApologyReply, 1, TRUE, TRUE)

\* generate_ai_response.  key_set: the environment holds the variable the
\* code reads; call_ok: the call returned a response rather than raising.
generate_ai_response(key_set, call_ok) ==
    IF ~key_set THEN AiOutcome(KeyNotFoundReply, 0, FALSE, FALSE)
    ELSE IF call_ok THEN AiOutcome(GeneratedReply, 1, FALSE, FALSE)
    ELSE AiOutcome(ApologyReply, 1, TRUE, FALSE)

\* The outcome logged for a request that did not ask the assistant.
NotAsked == [asked |-> FALSE, reply |-> FixedReply(""), attempts |-> 0,
             failed |-> FALSE, raised |-> FALSE]

\* The outcome logged for a request that asked it.
Asked(ai) == [asked |-> TRUE, reply |-> ai.reply, attempts |-> ai.attempts,
              failed |-> ai.failed, raised |-> ai.raised]

\* -------------------------------------------------------------------- state

VARIABLES
    conversation_state,  \* the module-level dict: key |-> value
    chat_history,        \* the rows of table chat_history, oldest first
    refund_records,      \* order id |-> refund status (no handler writes one)
    faqs,                \* the rows of table faqs, in id order
    api_key_set,         \* os.environ holds the variable generate_ai_response reads
    history_writable,    \* the INSERT of save_chat_history succeeds
    requests,            \* what each served request did, oldest first
    threads,             \* caller |-> the request it is running (SpecConc)
    last_write,          \* who wrote conversation_state last, and what (SpecConc)
    conc_requests,       \* what each request finished under SpecConc did
    call                 \* the last call of a function on its own: arguments, result

vars ==
    <<conversation_state, chat_history, refund_records, faqs, api_key_set,
      history_writable, requests, threads, last_write, conc_requests, call>>

\* No function has been called on its own.
NoCall == [fn |-> None]

Callers == {"A", "B"}

\* dict[key] and dict[key] = value.  A key never written reads as None.
DictGet(d, k) == IF k \in DOMAIN d THEN d[k] ELSE None

DictPut(d, k, v) == [x \in DOMAIN d \cup {k} |-> IF x = k THEN v ELSE d[x]]

\* A key of the caller's own: a pending state kept per caller.
StateKeyPerCaller(caller) == caller

\* The key of conversation_state a request of `caller` reads and writes: the
\* one literal key, whoever calls.
StateKey(caller) == "last_intent"

\* conversation_state as created at import: nothing pending.
InitialConversationState == [k \in {"last_intent"} |-> None]

\* The rows init_database loads from faq_data.json.
SampleFaqs ==
    << [id |-> 1,
        question |-> <<"r", "e", "f", "u", "n", "d", " ", "p", "o", "l", "i", "c", "y">>,
        keywords |-> [parses |-> TRUE, value |-> <<m_refund>>],
        response |-> "faq: refund policy"],
       [id |-> 2,
        question |-> <<"t", "r", "a", "c", "k", " ", "m", "y", " ", "o", "r", "d", "e", "r">>,
        keywords |-> [parses |-> FALSE, value |-> << >>],
        response |-> "faq: tracking"] >>

FaqStores == {<< >>, SampleFaqs}

IdleThreads == [c \in Callers |-> [pc |-> "idle"]]

\* The state once the module is imported and init_database has run.
InitOf(stores, writables) ==
    /\ conversation_state = InitialConversationState
    /\ chat_history = << >>
    /\ refund_records = [o \in {} |-> ""]
    /\ faqs \in stores
    /\ api_key_set \in BOOLEAN
    /\ history_writable \in writables
    /\ requests = << >>
    /\ threads = IdleThreads
    /\ last_write = [by |-> None, value |-> None]
    /\ conc_requests = << >>
    /\ call = NoCall

\* The same, the chat_history table accepting the INSERT.
InitWith(stores) == InitOf(stores, {TRUE})

Init == InitWith({SampleFaqs})

InitRoutes == InitWith(FaqStores)

\* --------------------------------------------- the stateful handler of /chat
\* The message taken as posted, strip() forgotten.
UnstrippedMessage(raw) == raw

\* data.get('message', '').strip()
StrippedMessage(raw) == strip(raw)
\* STEP 1 entered on any message while an order id is awaited.
SlotFillPendingAnyInput(last_intent, user_message) ==
    last_intent = "order_status"

\* STEP 1's condition: the bot is waiting for an order id and got one.
SlotFillPending(last_intent, user_message) ==
    last_intent = "order_status" /\ is_order_id(user_message)

\* STEP 1's reply: the order's status, or that there is no such order.
SlotFillReply(order_id) ==
    IF order_id \in DOMAIN mock_orders
    THEN OrderFoundReply(order_id, mock_orders[order_id])
    ELSE OrderNotFoundReply(order_id)
\* STEP 1 returning without resetting last_intent.
SlotFillNextIntentKept(found) == "order_status"

\* What STEP 1 leaves in last_intent, whether or not the order was found.
SlotFillNextIntent(found) == None
\* The two order-id prompts exchanged.
IntentReplySwapped(intent) ==
    CASE intent = "greeting" -> GreetingReply
      [] intent = "order_status" -> RefundPromptReply
      [] intent = "refund" -> OrderPromptReply
      [] intent = "product" -> ProductPromptReply

\* STEP 2's canned reply of an intent other than general.
IntentReply(intent) ==
    CASE intent = "greeting" -> GreetingReply
      [] intent = "order_status" -> OrderPromptReply
      [] intent = "refund" -> RefundPromptReply
      [] intent = "product" -> ProductPromptReply
\* The else branch's reset of last_intent forgotten.
StoredIntentNoReset(intent) == intent

\* What STEP 2 leaves in last_intent: the intent, reset to None in the else
\* branch.
StoredIntent(intent) ==
    IF intent \in {"greeting", "order_status", "refund", "product"}
    THEN intent
    ELSE None

\* The INSERT of save_chat_history left out: no row is written.
SavedHistoryNoInsert(history, user_message, reply, writable) == history

\* save_chat_history followed by the handler's return: the row is appended
\* and the reply returned, or the INSERT raises and the request fails.
SavedHistory(history, user_message, reply, writable) ==
    IF writable
    THEN Append(history, [user_message |-> user_message, bot_response |-> reply])
    ELSE history

SavedResponse(reply, writable) ==
    IF writable THEN JsonResponse(reply)
    ELSE JsonError(HttpServerError, InternalErrorReply)

\* The entry of `requests` for a request just served, read off the state it
\* left: last_intent and the number of history rows after it.
Served(handler, raw, consulted, assistant, response) ==
    requests' = Append(requests,
        [handler |-> handler, message |-> raw, assistant |-> assistant,
         before |-> DictGet(conversation_state, "last_intent"),
         after |-> DictGet(conversation_state', "last_intent"),
         rows_before |-> Len(chat_history),
         rows_after |-> Len(chat_history'),
         consulted |-> consulted, response |-> response])

\* One request of the stateful handler, start to return.
Chat(caller, raw, call_ok) ==
    LET user_message == StrippedMessage(raw)
        last_intent == DictGet(conversation_state, StateKey(caller))
        intent == detect_intent(user_message)
        ai == generate_ai_response(api_key_set, call_ok)
        reply == IF intent = "general" THEN ai.reply ELSE IntentReply(intent)
        raised == intent = "general" /\ ai.raised
    IN  /\ IF user_message = << >>
           THEN /\ UNCHANGED <<conversation_state, chat_history>>
                /\ Served("chat", raw, {}, NotAsked, JsonResponse(EnterMessageReply))
           ELSE IF SlotFillPending(last_intent, user_message)
           THEN /\ conversation_state' =
                      DictPut(conversation_state, StateKey(caller),
                              SlotFillNextIntent(user_message \in DOMAIN mock_orders))
                /\ UNCHANGED chat_history
                /\ Served("chat", raw, {"slot_fill"}, NotAsked,
                          JsonResponse(SlotFillReply(user_message)))
           ELSE /\ conversation_state' =
                      DictPut(conversation_state, StateKey(caller), StoredIntent(intent))
                /\ chat_history' =
                      IF raised THEN chat_history
                      ELSE SavedHistory(chat_history, user_message, reply,
                                        history_writable)
                /\ Served("chat", raw,
                          {"detect_intent"}
                             \cup (IF raised THEN {} ELSE {"save_chat_history"})
                             \cup (IF intent = "general"
                                   THEN {"generate_ai_response"} ELSE {})
                             \cup (IF intent = "general" /\ ai.called
                                   THEN {"generate_content"} ELSE {}),
                          IF intent = "general" THEN Asked(ai) ELSE NotAsked,
                          IF raised THEN JsonError(HttpServerError, InternalErrorReply)
                          ELSE SavedResponse(reply, history_writable))
        /\ UNCHANGED <<refund_records, call, faqs, api_key_set, history_writable,
                       threads, last_write, conc_requests>>

\* ------------------------------------------------ the FAQ handler of /chat

\* `faq_response if faq_response else ...`: None and '' are both false.
Truthy(faq_response) == faq_response # None /\ faq_response # ""

\* One request of the second handler registered for POST /chat, start to
\* return.  It neither reads nor writes conversation_state.
ChatFaq(raw, call_ok, stopwords_ok) ==
    LET user_message == StrippedMessage(raw)
        faq_response == match_faq(user_message, faqs, stopwords_ok)
        ai == generate_ai_response(api_key_set, call_ok)
        reply == IF Truthy(faq_response) THEN FixedReply(faq_response) ELSE ai.reply
        raised == ~Truthy(faq_response) /\ ai.raised
    IN  /\ UNCHANGED <<conversation_state, refund_records, call, faqs, api_key_set,
                       history_writable, threads, last_write, conc_requests>>
        /\ IF user_message = << >>
           THEN /\ UNCHANGED chat_history
                /\ Served("chat_faq", raw, {}, NotAsked,
                          JsonError(HttpBadRequest, MessageRequiredReply))
           ELSE /\ chat_history' =
                      IF raised THEN chat_history
                      ELSE SavedHistory(chat_history, user_message, reply,
                                        history_writable)
                /\ Served("chat_faq", raw,
                          {"match_faq"}
                             \cup (IF raised THEN {} ELSE {"save_chat_history"})
                             \cup (IF Truthy(faq_response)
                                   THEN {} ELSE {"generate_ai_response"})
                             \cup (IF ~Truthy(faq_response) /\ ai.called
                                   THEN {"generate_content"} ELSE {}),
                          IF Truthy(faq_response) THEN NotAsked ELSE Asked(ai),
                          IF raised THEN JsonError(HttpServerError, InternalErrorReply)
                          ELSE SavedResponse(reply, history_writable))

\* ------------------------------------------------------------ specification

ServeChat(bound) ==
    /\ Len(requests) < bound
    /\ \E caller \in Callers, raw \in Messages, call_ok \in BOOLEAN :
          Chat(caller, raw, call_ok)

ServeChatFaq(bound) ==
    /\ Len(requests) < bound
    /\ \E raw \in Messages, call_ok \in BOOLEAN, stopwords_ok \in BOOLEAN :
          ChatFaq(raw, call_ok, stopwords_ok)

\* Requests of the stateful handler, one after the other.
Next == ServeChat(MaxRequests)

Spec == Init /\ [][Next]_vars

\* Requests of either handler registered for POST /chat, one after the other.
NextRoutes == ServeChat(MaxRouteRequests) \/ ServeChatFaq(MaxRouteRequests)

SpecRoutes == InitRoutes /\ [][NextRoutes]_vars

\* The same requests, served while the database accepts the INSERT of
\* save_chat_history or refuses it (locked, read-only, disk full).
InitHistory == InitOf({SampleFaqs}, BOOLEAN)

SpecHistory == InitHistory /\ [][NextRoutes]_vars

\* --------------------------------------- the stateful handler, interleaved

\* The server runs each request in a thread of its own: the requests of two
\* callers interleave between the handler's reads and writes of
\* conversation_state.  A caller posts its next message once the last is
\* answered.

ConcMessages == {m_blank, m_order, m_abc, m_123}

InFlight == {c \in Callers : threads[c].pc # "idle"}

\* The entry of conc_requests for a request of `caller` being answered.
Answered(caller, t, branch, response) ==
    conc_requests' = Append(conc_requests,
        [caller |-> caller, message |-> t.raw, read |-> t.read,
         latest |-> t.latest, branch |-> branch, response |-> response])

\* Lines 88-92: the message is read and stripped; an empty one is answered.
Receive(caller, raw) ==
    /\ threads[caller].pc = "idle"
    /\ Len(conc_requests) + Cardinality(InFlight) < MaxConcRequests
    /\ IF StrippedMessage(raw) = << >>
       THEN /\ Answered(caller, [raw |-> raw, read |-> None, latest |-> last_write],
                        "empty", JsonResponse(EnterMessageReply))
            /\ UNCHANGED threads
       ELSE /\ threads' = [threads EXCEPT ![caller] =
                             [pc |-> "check", raw |-> raw,
                              user_message |-> StrippedMessage(raw)]]
            /\ UNCHANGED conc_requests
    /\ UNCHANGED <<conversation_state, chat_history, refund_records, call, faqs,
                   api_key_set, history_writable, requests, last_write>>

\* Line 95: last_intent is read and the slot-fill condition decided.
Check(caller) ==
    LET t == threads[caller]
        read == DictGet(conversation_state, StateKey(caller))
    IN  /\ t.pc = "check"
        /\ threads' = [threads EXCEPT ![caller] =
              [pc |-> IF SlotFillPending(read, t.user_message)
                      THEN "slot_fill" ELSE "classify",
               raw |-> t.raw, user_message |-> t.user_message,
               read |-> read, latest |-> last_write]]
        /\ UNCHANGED <<conversation_state, chat_history, refund_records, call, faqs,
                       api_key_set, history_writable, requests, last_write,
                       conc_requests>>

\* Lines 96-115: the order is looked up, last_intent reset, the reply returned.
SlotFill(caller) ==
    LET t == threads[caller]
        next_intent == SlotFillNextIntent(t.user_message \in DOMAIN mock_orders)
    IN  /\ t.pc = "slot_fill"
        /\ conversation_state' =
              DictPut(conversation_state, StateKey(caller), next_intent)
        /\ last_write' = [by |-> caller, value |-> next_intent]
        /\ Answered(caller, t, "slot_fill",
                    JsonResponse(SlotFillReply(t.user_message)))
        /\ threads' = [threads EXCEPT ![caller] = [pc |-> "idle"]]
        /\ UNCHANGED <<chat_history, refund_records, call, faqs, api_key_set,
                       history_writable, requests>>

\* Lines 118-131: the intent is detected and stored, the canned reply chosen.
Classify(caller) ==
    LET t == threads[caller]
        intent == detect_intent(t.user_message)
    IN  /\ t.pc = "classify"
        /\ conversation_state' = DictPut(conversation_state, StateKey(caller), intent)
        /\ last_write' = [by |-> caller, value |-> intent]
        /\ threads' = [threads EXCEPT ![caller] =
              IF intent = "general"
              THEN [t EXCEPT !.pc = "reset"]
              ELSE [pc |-> "save", raw |-> t.raw, user_message |-> t.user_message,
                    read |-> t.read, latest |-> t.latest,
                    reply |-> IntentReply(intent)]]
        /\ UNCHANGED <<chat_history, refund_records, call, faqs, api_key_set,
                       history_writable, requests, conc_requests>>

\* Lines 133-135: last_intent is reset and the assistant asked.
Reset(caller, call_ok) ==
    LET t == threads[caller]
    IN  /\ t.pc = "reset"
        /\ conversation_state' = DictPut(conversation_state, StateKey(caller), None)
        /\ last_write' = [by |-> caller, value |-> None]
        /\ threads' = [threads EXCEPT ![caller] =
              [pc |-> "save", raw |-> t.raw, user_message |-> t.user_message,
               read |-> t.read, latest |-> t.latest,
               reply |-> generate_ai_response(api_key_set, call_ok).reply]]
        /\ UNCHANGED <<chat_history, refund_records, call, faqs, api_key_set,
                       history_writable, requests, conc_requests>>

\* Lines 137-138: the exchange is saved and the reply returned.
Save(caller) ==
    LET t == threads[caller]
    IN  /\ t.pc = "save"
        /\ chat_history' =
              SavedHistory(chat_history, t.user_message, t.reply, history_writable)
        /\ Answered(caller, t, "classify", SavedResponse(t.reply, history_writable))
        /\ threads' = [threads EXCEPT ![caller] = [pc |-> "idle"]]
        /\ UNCHANGED <<conversation_state, refund_records, call, faqs, api_key_set,
                       history_writable, requests, last_write>>

NextConc ==
    \/ \E caller \in Callers, raw \in ConcMessages : Receive(caller, raw)
    \/ \E caller \in Callers : Check(caller)
    \/ \E caller \in Callers : SlotFill(caller)
    \/ \E caller \in Callers : Classify(caller)
    \/ \E caller \in Callers, call_ok \in BOOLEAN : Reset(caller, call_ok)
    \/ \E caller \in Callers : Save(caller)

SpecConc == Init /\ [][NextConc]_vars

\* ------------------------------------------------------- match_faq, alone

\* The rows a faqs table is drawn from (their ids are their places in it).
q_refund_policy ==
    <<"r", "e", "f", "u", "n", "d", " ", "p", "o", "l", "i", "c", "y">>
q_track_my_order ==
    <<"t", "r", "a", "c", "k", " ", "m", "y", " ", "o", "r", "d", "e", "r">>
q_refund_order == <<"r", "e", "f", "u", "n", "d", " ", "o", "r", "d", "e", "r">>
q_order_order_status ==
    <<"o", "r", "d", "e", "r", " ", "o", "r", "d", "e", "r", " ",
      "s", "t", "a", "t", "u", "s">>
q_where == <<"w", "h", "e", "r", "e">>
k_Refund == <<"R", "e", "f", "u", "n", "d">>
k_my_order == <<"m", "y", " ", "o", "r", "d", "e", "r">>
m_Refund_bang == <<"R", "e", "f", "u", "n", "d", "!">>

\* A row whose keywords column is not JSON keeps, as value, the words a
\* lenient reader would take from it; json.loads raises on it.
FaqRows ==
    { [question |-> q_refund_policy,
       keywords |-> [parses |-> TRUE, value |-> <<k_Refund>>],
       response |-> "faq: refund policy"],
      [question |-> q_track_my_order,
       keywords |-> [parses |-> FALSE, value |-> <<m_order>>],
       response |-> "faq: tracking"],
      [question |-> q_refund_order,
       keywords |-> [parses |-> TRUE, value |-> <<m_refund>>],
       response |-> "faq: refund an order"],
      [question |-> q_order_order_status,
       keywords |-> [parses |-> TRUE, value |-> << >>],
       response |-> "faq: order status"],
      [question |-> q_where,
       keywords |-> [parses |-> TRUE, value |-> <<k_my_order, m_order>>],
       response |-> "faq: where is my order"] }

\* Rows of table faqs a store of match_faq's own specification holds at most.
MaxFaqs == 2

\* The tables of at most MaxFaqs rows, AUTOINCREMENT ids in row order.
FaqTables ==
    UNION { { [i \in 1..n |->
                 [id |-> i, question |-> rows[i].question,
                  keywords |-> rows[i].keywords, response |-> rows[i].response]] :
              rows \in [1..n -> FaqRows] } : n \in 0..MaxFaqs }

FaqMessages ==
    {m_refund, q_refund_order, q_track_my_order, m_order, m_hello, m_Refund_bang}

InitFaq == InitWith(FaqTables)

\* match_faq called on a message, with or without the stopword corpus.
MatchFaq(user_message, stopwords_ok) ==
    /\ call' = [fn |-> "match_faq", user_message |-> user_message,
                stopwords_ok |-> stopwords_ok,
                scores |-> [i \in 1..Len(faqs) |->
                              FaqScore(faqs[i], user_message, stopwords_ok)],
                result |-> match_faq(user_message, faqs, stopwords_ok)]
    /\ UNCHANGED <<conversation_state, chat_history, refund_records, faqs,
                   api_key_set, history_writable, requests, threads, last_write,
                   conc_requests>>

NextFaq ==
    \E user_message \in FaqMessages, stopwords_ok \in BOOLEAN :
        MatchFaq(user_message, stopwords_ok)

SpecFaq == InitFaq /\ [][NextFaq]_vars

\* --------------------------------------------------- detect_intent, alone

m_Order == <<"O", "r", "d", "e", "r">>
m_return == <<"r", "e", "t", "u", "r", "n">>
m_track == <<"t", "r", "a", "c", "k">>

IntentVocabulary ==
    {m_hello, m_order, m_Order, m_refund, m_return, m_product, m_track, m_abc}

\* Words a message of detect_intent's own specification holds at most.
MaxIntentWords == 3

\* The messages of one to MaxIntentWords words of the vocabulary.
IntentMessages ==
    UNION { { join(words) : words \in [1..n -> IntentVocabulary] } :
            n \in 1..MaxIntentWords }

\* detect_intent called, once, on a message; hits: the keyword sets the
\* message hits.
DetectIntent(message) ==
    /\ call = NoCall
    /\ call' = [fn |-> "detect_intent", message |-> message,
                hits |-> [greeting |-> Hits(message, GreetingWords),
                          order_status |-> Hits(message, OrderStatusWords),
                          refund |-> Hits(message, RefundWords),
                          product |-> Hits(message, ProductWords)],
                result |-> detect_intent(message)]
    /\ UNCHANGED <<conversation_state, chat_history, refund_records, faqs,
                   api_key_set, history_writable, requests, threads, last_write,
                   conc_requests>>

NextIntent == \E message \in IntentMessages : DetectIntent(message)

SpecIntent == Init /\ [][NextIntent]_vars

\* ------------------------------------------------------------------- claims

RequestIds == 1..Len(requests)

ChatRequests == {i \in RequestIds : requests[i].handler = "chat"}

Blank(raw) == strip(raw) = << >>

ValidId(raw) == is_order_id(strip(raw))

KnownId(raw) == strip(raw) \in DOMAIN mock_orders

Awaiting == {"order_status", "refund"}

\* A reply that signals an error rather than answering.
ErrorReplies(order_id) ==
    {OrderNotFoundReply(order_id), KeyNotFoundReply, ApologyReply}

\* C1: while an order id is awaited, a well-formed id of no order gets the
\* not-found reply and leaves the state awaiting an order id, so that a known
\* id sent next is answered with that order's status.
C1_UnknownIdKeepsAwaiting ==
    \A i \in ChatRequests :
        LET r == requests[i]
            id == strip(r.message)
        IN  (r.before = "order_status" /\ ValidId(r.message) /\ ~KnownId(r.message))
            => /\ r.response = JsonResponse(OrderNotFoundReply(id))
               /\ r.after = "order_status"
               /\ \A j \in ChatRequests :
                     (j = i + 1 /\ KnownId(requests[j].message))
                     => requests[j].response =
                           JsonResponse(OrderFoundReply(strip(requests[j].message),
                                          mock_orders[strip(requests[j].message)]))

\* C2: while an order id is awaited, the id of an existing order is answered
\* with that order's status ("Shipped" for order 123) and nothing is awaited
\* afterwards.
C2_KnownIdResolves ==
    \A i \in ChatRequests :
        LET r == requests[i]
            id == strip(r.message)
        IN  (r.before = "order_status" /\ ValidId(r.message) /\ KnownId(r.message))
            => /\ r.response.code = HttpOk
               /\ r.response.key = "response"
               /\ r.response.reply.order_id = id
               /\ r.response.reply.status = mock_orders[id].status
               /\ (id = m_123 => r.response.reply.status = "Shipped")
               /\ r.after = None
               /\ (i = Len(requests)
                     => DictGet(conversation_state, "last_intent") = None)

C2_Witness ==
    \E i \in ChatRequests :
        /\ requests[i].before = "order_status"
        /\ requests[i].message = m_123
        /\ requests[i].response.reply.status = "Shipped"
        /\ requests[i].after = None

\* C3: while a refund order id is awaited, the id of an existing order records
\* refund status "Initiated" for it, is confirmed to the caller, and nothing is
\* awaited afterwards.
C3_RefundRecorded ==
    \A i \in ChatRequests :
        LET r == requests[i]
            id == strip(r.message)
        IN  (r.before = "refund" /\ ValidId(r.message) /\ KnownId(r.message))
            => /\ id \in DOMAIN refund_records
               /\ refund_records[id] = "Initiated"
               /\ r.response.code = HttpOk
               /\ r.after = None

\* C4: while a refund order id is awaited, a well-formed id of no order is
\* answered with an error message and nothing is awaited afterwards.
C4_RefundUnknownIdError ==
    \A i \in ChatRequests :
        LET r == requests[i]
            id == strip(r.message)
        IN  (r.before = "refund" /\ ValidId(r.message) /\ ~KnownId(r.message))
            => /\ r.response.reply \in ErrorReplies(id)
               /\ r.after = None

\* C5: with nothing awaited, a message classified order_status is answered
\* with the order-id prompt and leaves an order id awaited, and a message
\* classified refund is answered with the refund prompt and leaves a refund
\* order id awaited.
C5_IdlePrompts ==
    \A i \in ChatRequests :
        LET r == requests[i]
            intent == detect_intent(strip(r.message))
        IN  (r.before \notin Awaiting /\ ~Blank(r.message))
            => /\ intent = "order_status"
                    => /\ r.after = "order_status"
                       /\ r.response = JsonResponse(OrderPromptReply)
               /\ intent = "refund"
                    => /\ r.after = "refund"
                       /\ r.response = JsonResponse(RefundPromptReply)

C5_Witness ==
    \E i, j \in ChatRequests :
        /\ requests[i].before = None
        /\ requests[i].message = m_order
        /\ requests[i].after = "order_status"
        /\ requests[j].before = None
        /\ requests[j].message = m_refund
        /\ requests[j].after = "refund"

\* C6 as stated: last_intent is always None, order_status or refund; a request
\* that reaches classification leaves the classified intent awaited for
\* order_status and refund and None for every other intent, a greeting such
\* as "hello" being answered with the fixed greeting.
C6_ThreePendingValues ==
    /\ DictGet(conversation_state, "last_intent") \in {None} \cup Awaiting
    /\ \A i \in ChatRequests :
          LET r == requests[i]
              intent == detect_intent(strip(r.message))
          IN  "detect_intent" \in r.consulted
              => /\ r.after = (IF intent \in Awaiting THEN intent ELSE None)
                 /\ intent = "greeting"
                      => r.response = JsonResponse(GreetingReply)

\* C6, amended: last_intent is always None or one of greeting, order_status,
\* refund, product; a request that reaches classification stores the
\* classified intent, and None only for general; a greeting such as "hello"
\* is answered with the fixed greeting and stores greeting, which awaits
\* nothing.
C6_StoredIntentValues ==
    /\ DictGet(conversation_state, "last_intent")
          \in {None, "greeting", "order_status", "refund", "product"}
    /\ \A i \in ChatRequests :
          LET r == requests[i]
              intent == detect_intent(strip(r.message))
          IN  "detect_intent" \in r.consulted
              => /\ r.after = (IF intent = "general" THEN None ELSE intent)
                 /\ (i = Len(requests)
                       => DictGet(conversation_state, "last_intent") = r.after)
                 /\ intent = "greeting"
                      => /\ r.response = JsonResponse(GreetingReply)
                         /\ r.after = "greeting"
                         /\ r.after \notin Awaiting

C6_Witness ==
    \E i, j \in ChatRequests :
        /\ requests[i].before = "order_status"
        /\ requests[i].message = m_hello
        /\ requests[i].response = JsonResponse(GreetingReply)
        /\ requests[i].after = "greeting"
        /\ "generate_ai_response" \in requests[j].consulted
        /\ requests[j].after = None

\* C7: a request that finds an order id or a refund order id awaited and
\* carries a well-formed id is answered by the slot-fill branch alone: the FAQ
\* matcher, the intent classifier and the assistant are not consulted.
C7_SlotFillFirst ==
    \A i \in RequestIds :
        LET r == requests[i]
        IN  (r.before \in Awaiting /\ ValidId(r.message))
            => r.consulted = {"slot_fill"}

\* C8 as stated: only an all-digit message of length at least 3 is taken as a
\* slot-fill value; while an id is awaited every other message looks up no
\* order, writes no refund and goes to intent classification.
C8_OtherInputClassified ==
    \A i \in ChatRequests :
        LET r == requests[i]
        IN  /\ "slot_fill" \in r.consulted => ValidId(r.message)
            /\ (r.before \in Awaiting /\ ~ValidId(r.message))
               => /\ "slot_fill" \notin r.consulted
                  /\ r.response.reply.order_id = << >>
                  /\ DOMAIN refund_records = {}
                  /\ "detect_intent" \in r.consulted

\* C8, amended: as C8, for every other message that is not empty once stripped.
C8_OtherNonEmptyInputClassified ==
    \A i \in ChatRequests :
        LET r == requests[i]
        IN  /\ "slot_fill" \in r.consulted => ValidId(r.message)
            /\ (r.before \in Awaiting /\ ~ValidId(r.message) /\ ~Blank(r.message))
               => /\ "slot_fill" \notin r.consulted
                  /\ r.response.reply.order_id = << >>
                  /\ DOMAIN refund_records = {}
                  /\ "detect_intent" \in r.consulted

C8_Witness ==
    \E i \in ChatRequests :
        /\ requests[i].before = "order_status"
        /\ requests[i].message = m_12
        /\ "detect_intent" \in requests[i].consulted
        /\ requests[i].after = None

ConcIds == 1..Len(conc_requests)

\* C10: the two callers share one pending state.  Every request's slot-fill
\* check reads what the last write left, whichever caller wrote it, and a
\* well-formed id is resolved as a slot-fill exactly when that last write left
\* order_status: so one caller's request can consume or overwrite what the
\* other caller's prompt left.
C10_SharedPendingState ==
    \A i \in ConcIds :
        LET r == conc_requests[i]
        IN  r.branch # "empty"
            => /\ r.read = r.latest.value
               /\ ValidId(r.message)
                    => (r.branch = "slot_fill" <=> r.latest.value = "order_status")

\* A is prompted for its order id; B's digits are resolved against A's prompt;
\* A's own valid id, sent next, finds B's write and is not resolved.
C10_Witness ==
    \E i, j, k \in ConcIds :
        /\ i < j /\ j < k
        /\ conc_requests[i].caller = "A"
        /\ conc_requests[i].response = JsonResponse(OrderPromptReply)
        /\ conc_requests[j].caller = "B"
        /\ conc_requests[j].message = m_123
        /\ conc_requests[j].latest.by = "A"
        /\ conc_requests[j].branch = "slot_fill"
        /\ conc_requests[k].caller = "A"
        /\ conc_requests[k].message = m_123
        /\ conc_requests[k].latest.by = "B"
        /\ conc_requests[k].branch = "classify"
        /\ conc_requests[k].response.reply.status # "Shipped"

FaqCalled == call.fn = "match_faq"

FaqRowIds == 1..Len(faqs)

\* C11: match_faq returns a response only when the best score is at least 2;
\* when every row scores below 2, and when the table is empty, it returns None.
C11_BelowThresholdNoMatch ==
    FaqCalled
    => /\ call.result # None
            => \E i \in FaqRowIds :
                  /\ call.scores[i] >= 2
                  /\ call.result = faqs[i].response
                  /\ \A j \in FaqRowIds : call.scores[j] <= call.scores[i]
       /\ (\A i \in FaqRowIds : call.scores[i] < 2) => call.result = None

C11_Witness ==
    /\ FaqCalled
    /\ faqs # << >>
    /\ \E i \in FaqRowIds : call.scores[i] = 1
    /\ \A i \in FaqRowIds : call.scores[i] < 2
    /\ call.result = None

\* The rows of the greatest score.
BestRows == {i \in FaqRowIds : \A j \in FaqRowIds : call.scores[j] <= call.scores[i]}

\* The first of them in table order.
FirstBestRow == CHOOSE i \in BestRows : \A j \in BestRows : i <= j

\* C12: the response match_faq returns is that of a row of the greatest score,
\* and of the first such row in table order when several rows share it.
C12_FirstBestRowWins ==
    (FaqCalled /\ call.result # None)
    => /\ BestRows # {}
       /\ call.result = faqs[FirstBestRow].response

C12_Witness ==
    /\ FaqCalled
    /\ \E i, j \in BestRows :
          /\ i < j
          /\ faqs[i].response # faqs[j].response
          /\ call.scores[i] >= 2
          /\ call.result = faqs[i].response

IntentCalled == call.fn = "detect_intent"

\* The categories with a keyword set, in the order they are tested.
IntentPriority == <<"greeting", "order_status", "refund", "product">>

HitPlaces == {i \in 1..Len(IntentPriority) : call.hits[IntentPriority[i]]}

\* C13: the intent returned is the first of greeting, order_status, refund,
\* product whose keyword set the message hits, and general when it hits none.
C13_FirstHitWins ==
    IntentCalled
    => call.result =
          (IF HitPlaces = {} THEN "general"
           ELSE IntentPriority[CHOOSE i \in HitPlaces : \A j \in HitPlaces : i <= j])

C13_Witness ==
    /\ IntentCalled
    /\ call.hits.order_status
    /\ call.hits.refund
    /\ call.hits.product
    /\ ~call.hits.greeting
    /\ call.result = "order_status"

\* The requests that asked the external assistant for a reply.
AssistantRequests == {i \in RequestIds : requests[i].assistant.asked}

\* C14: with no credential configured, the assistant client returns the fixed
\* "key not found" string and calls the service zero times, whatever the
\* message.
C14_NoKeyNoCall ==
    \A i \in AssistantRequests :
        ~api_key_set
        => /\ requests[i].assistant.reply = KeyNotFoundReply
           /\ requests[i].assistant.attempts = 0
           /\ "generate_content" \notin requests[i].consulted

C14_Witness ==
    \E i, j \in AssistantRequests :
        /\ ~api_key_set
        /\ requests[i].handler = "chat"
        /\ requests[j].handler = "chat_faq"
        /\ requests[i].message # requests[j].message
        /\ requests[i].assistant.reply = KeyNotFoundReply
        /\ requests[j].assistant.attempts = 0

\* C15: a failure of the assistant call becomes the fixed apology and does not
\* leave the client: the request is answered with a success payload carrying
\* the apology, and the service was called exactly once.
C15_FailureBecomesApology ==
    \A i \in AssistantRequests :
        requests[i].assistant.failed
        => /\ requests[i].assistant.reply = ApologyReply
           /\ ~requests[i].assistant.raised
           /\ requests[i].assistant.attempts = 1
           /\ requests[i].response = JsonResponse(ApologyReply)

C15_Witness ==
    \E i \in AssistantRequests :
        /\ requests[i].handler = "chat"
        /\ requests[i].after = None
        /\ requests[i].assistant.failed
        /\ requests[i].response = JsonResponse(ApologyReply)

\* The requests that reached save_chat_history while the INSERT fails.
FailedWrites ==
    {i \in RequestIds :
        "save_chat_history" \in requests[i].consulted /\ ~history_writable}

\* C16: a request whose history write fails is still answered with its reply,
\* as a success payload; the failure does not show in the response.
C16_FailedWriteStillAnswers ==
    \A i \in FailedWrites :
        /\ requests[i].response.code = HttpOk
        /\ requests[i].response.key = "response"
        /\ requests[i].response.reply # InternalErrorReply

\* A two-token "product <id>" command.
IsProductCommand(raw) ==
    LET tokens == split(strip(raw))
    IN  /\ Len(tokens) = 2
        /\ lower(tokens[1]) = m_product
        /\ \A k \in 1..Len(tokens[2]) : tokens[2][k] \in Digits

\* C17: a "product <id>" command is answered by the shorthand branch whatever
\* last_intent holds, and neither slot-fill, FAQ matching nor intent
\* classification runs for it.
C17_ShorthandBypasses ==
    \A i \in RequestIds :
        IsProductCommand(requests[i].message)
        => /\ "shorthand" \in requests[i].consulted
           /\ requests[i].consulted
                 \cap {"slot_fill", "match_faq", "detect_intent"} = {}
           /\ requests[i].response.reply # ProductPromptReply

\* The sum of a sequence of numbers.
RECURSIVE Sum(_)
Sum(seq) == IF seq = << >> THEN 0 ELSE Head(seq) + Sum(Tail(seq))

\* The normalized tokens of the message match_faq was called with.
CalledTokens == preprocess_text(call.user_message, call.stopwords_ok)

\* The question tokens of row i found among the message's tokens, each
\* occurrence in the question counted.
QuestionTokenHits(i) ==
    LET tokens == preprocess_text(faqs[i].question, call.stopwords_ok)
    IN  Sum([n \in 1..Len(tokens) |->
                IF \E j \in 1..Len(CalledTokens) : CalledTokens[j] = tokens[n]
                THEN 1 ELSE 0])

\* The stored keywords of row i found in the joined tokens or in the raw
\* lowercased message.
KeywordHits(i) ==
    LET keywords == faqs[i].keywords.value
    IN  Sum([n \in 1..Len(keywords) |->
                IF \/ Contains(join(CalledTokens), lower(keywords[n]))
                   \/ Contains(lower(call.user_message), lower(keywords[n]))
                THEN 1 ELSE 0])

\* C18: a row whose keyword list does not parse scores its question-token hits
\* only, the call returns all the same, and such a row is selected when those
\* hits alone reach the threshold.
C18_UnparsedKeywordsCountNothing ==
    FaqCalled
    => /\ \A i \in FaqRowIds :
             ~faqs[i].keywords.parses => call.scores[i] = QuestionTokenHits(i)
       /\ call.result \in {None} \cup {faqs[i].response : i \in FaqRowIds}

C18_Witness ==
    /\ FaqCalled
    /\ \E i \in FaqRowIds :
          /\ ~faqs[i].keywords.parses
          /\ KeywordHits(i) > 0
          /\ call.scores[i] >= 2
          /\ call.result = faqs[i].response

\* C19: the score of every row is the number of its keywords found in the
\* joined normalized tokens or in the raw lowercased message, plus the number
\* of its question's normalized tokens, repeats included, found among the
\* message's normalized tokens.
C19_ScoreIsKeywordPlusTokenHits ==
    FaqCalled
    => \A i \in FaqRowIds :
          call.scores[i] =
              (IF faqs[i].keywords.parses THEN KeywordHits(i) ELSE 0)
                 + QuestionTokenHits(i)

C19_Witness ==
    /\ FaqCalled
    /\ \E i, j \in FaqRowIds :
          /\ faqs[i].question = q_order_order_status
          /\ call.user_message = m_order
          /\ call.scores[i] = 2
          /\ faqs[j].keywords.parses
          /\ KeywordHits(j) = 1
          /\ call.scores[j] = 1 + QuestionTokenHits(j)

\* The requests answered with a reply: not the empty-message answers, not the
\* error responses.
Replied ==
    {i \in RequestIds :
        /\ ~Blank(requests[i].message)
        /\ requests[i].response.key = "response"}

\* The exchange request i would put in the history.
Exchange(i) ==
    [user_message |-> strip(requests[i].message),
     bot_response |-> requests[i].response.reply]

\* C20: a non-empty request answered with a reply appends exactly one row, its
\* (message, reply), to the history; a reply of the order-id slot-fill branch
\* of the stateful handler appends none.
C20_OneRowPerReply ==
    \A i \in Replied :
        IF "slot_fill" \in requests[i].consulted
        THEN requests[i].rows_after = requests[i].rows_before
        ELSE /\ requests[i].rows_after = requests[i].rows_before + 1
             /\ requests[i].rows_after <= Len(chat_history)
             /\ chat_history[requests[i].rows_after] = Exchange(i)

C20_Witness ==
    \E i, j \in Replied :
        /\ j < i
        /\ requests[j].handler = "chat"
        /\ requests[j].rows_after = requests[j].rows_before + 1
        /\ chat_history[requests[j].rows_after] = Exchange(j)
        /\ requests[i].handler = "chat"
        /\ "slot_fill" \in requests[i].consulted
        /\ requests[i].rows_after = requests[i].rows_before
        /\ Len(chat_history) = 1

=============================================================================
